---- MODULE Spec2Model ----
\* Server bootstrap of web-home (src/integration/bootstrap/main.server.ts and
\* mongo-check.ts): cache-first data-availability decision, TCP reachability
\* probe, conditional MongoDB connection, hand-over to the Angular bootstrap.
EXTENDS Integers, Sequences, FiniteSets, TLC

\* ---------------------------------------------------------------- bounds
NumPages == 2
MaxPageOrderLen == 2
MaxFaults == 1
MaxEvents == 3

PageIds == 1..NumPages

\* ------------------------------------------------------- cache contents
\* Value stored under 'site-content:site-001': no entry, a falsy JSON value
\* (0, false, ""), or a truthy one.
AggKinds == {"absent", "falsy", "truthy"}

\* Value stored under 'site:site-001':
\*   absent       no entry
\*   falsy        a falsy JSON value
\*   nodata       a truthy value whose .data is missing or falsy
\*   nopageorder  .data is truthy, .data.pageOrder missing or falsy
\*   nonarray     .data.pageOrder is truthy but not an array
\*   array        .data.pageOrder is an array (the field pageOrder)
SiteKinds == {"absent", "falsy", "nodata", "nopageorder", "nonarray", "array"}

\* Value stored under 'page:<id>':
\*   absent       no entry
\*   falsy        a falsy JSON value
\*   nonobject    a truthy value that is not an object (string, number)
\*   nodatafield  an object without a 'data' property
\*   datanull     an object whose data is null
\*   datafalsy    an object whose data is 0, false or ""
\*   ok           an object whose data is a truthy payload
PageKinds == {"absent", "falsy", "nonobject", "nodatafield", "datanull",
              "datafalsy", "ok"}

PageOrders == UNION {[1..n -> PageIds] : n \in 0..MaxPageOrderLen}

SiteRecs == {[kind |-> k, pageOrder |-> <<>>] : k \in SiteKinds \ {"array"}}
            \cup {[kind |-> "array", pageOrder |-> po] : po \in PageOrders}

Caches == [agg : AggKinds, site : SiteRecs, pages : [PageIds -> PageKinds]]

EmptyCache == [agg |-> "absent",
               site |-> [kind |-> "absent", pageOrder |-> <<>>],
               pages |-> [p \in PageIds |-> "absent"]]

\* Cache keys: 'site-content:site-001', 'site:site-001', `page:${pageId}`.
siteContentKey == [ns |-> "site-content", id |-> 1]
siteKey == [ns |-> "site", id |-> 1]
pageKey(pageId) == [ns |-> "page", id |-> pageId]
Keys == {siteContentKey, siteKey} \cup {pageKey(p) : p \in PageIds}

FaultSets == {F \in SUBSET Keys : Cardinality(F) <= MaxFaults}

\* What the store holds under key k.
Stored(c, k) ==
  CASE k.ns = "site-content" -> c.agg
    [] k.ns = "site" -> c.site.kind
    [] OTHER -> c.pages[k.id]

\* db.get(k): rejects when the read fails (k \in failing); for a key with no
\* entry it rejects with not-found or resolves to undefined, depending on the
\* store's API generation (notFoundThrows); otherwise resolves to the value.
dbGet(c, k, failing, notFoundThrows) ==
  IF k \in failing THEN [threw |-> TRUE, val |-> "undefined"]
  ELSE IF Stored(c, k) = "absent"
       THEN [threw |-> notFoundThrows, val |-> "undefined"]
       ELSE [threw |-> FALSE, val |-> Stored(c, k)]

\* JavaScript truthiness of a value read from the store.
Truthy(v) == v \notin {"undefined", "falsy"}

\* Variant: the catch of line 106 does not mark the page missing.
pageMissingCatchIgnored(r) ==
  IF r.threw THEN FALSE
  ELSE \/ ~Truthy(r.val)
       \/ r.val = "nonobject"
       \/ r.val = "nodatafield"
       \/ r.val = "datanull"

\* Variant: the data test is !pageData.data instead of null/undefined.
pageMissingFalsyData(r) ==
  IF r.threw THEN TRUE
  ELSE \/ ~Truthy(r.val)
       \/ r.val = "nonobject"
       \/ r.val = "nodatafield"
       \/ r.val = "datanull"
       \/ r.val = "datafalsy"

\* Variant: the null test on pageData.data is left out.
pageMissingNoNullCheck(r) ==
  IF r.threw THEN TRUE
  ELSE \/ ~Truthy(r.val)
       \/ r.val = "nonobject"
       \/ r.val = "nodatafield"

\* The test of lines 101-102 on a page read, plus the catch of line 106.
pageMissing(r) ==
  IF r.threw THEN TRUE
  ELSE \/ ~Truthy(r.val)
       \/ r.val = "nonobject"
       \/ r.val = "nodatafield"
       \/ r.val = "datanull"

\* The condition of line 89 on the site value.
hasPageOrderArray(v) ==
  /\ Truthy(v)
  /\ v # "nodata"
  /\ v # "nopageorder"
  /\ v = "array"

\* Variant: hasSiteContent = !siteContent.
hasSiteContentInverted(r) == IF r.threw THEN FALSE ELSE ~Truthy(r.val)

\* Lines 59-67: hasSiteContent from the read of the aggregated key.
hasSiteContentOf(r) == IF r.threw THEN FALSE ELSE Truthy(r.val)

\* Variant: a site record that lists no page does not count as cached.
allPagesInCacheNonEmpty(pageOrder, missingPages) ==
  pageOrder # <<>> /\ missingPages = <<>>

\* Lines 93-109: allPagesInCache starts true and is cleared for every page
\* pushed on missingPages.
allPagesInCacheOf(pageOrder, missingPages) == missingPages = <<>>

\* Variant: the outer catch assumes the cache can serve.
onDecisionErrorAssumesCache == FALSE

\* Lines 124-127: the outer catch returns true.
onDecisionError == TRUE

\* checkCacheForRequiredData: TRUE = MongoDB needed (DATABASE_REQUIRED),
\* FALSE = cache sufficient.
checkCacheForRequiredData(c, handleThrows, failing, notFoundThrows) ==
  IF handleThrows THEN onDecisionError
  ELSE
    LET rContent == dbGet(c, siteContentKey, failing, notFoundThrows)
        hasSiteContent == hasSiteContentOf(rContent)
        rSite == dbGet(c, siteKey, failing, notFoundThrows)
        missingPages ==
          SelectSeq(c.site.pageOrder,
                    LAMBDA pageId :
                      pageMissing(dbGet(c, pageKey(pageId), failing, notFoundThrows)))
        allPagesInCache == allPagesInCacheOf(c.site.pageOrder, missingPages)
    IN IF hasSiteContent THEN FALSE
       ELSE IF rSite.threw THEN TRUE
       ELSE IF hasPageOrderArray(rSite.val)
            THEN (IF allPagesInCache THEN FALSE ELSE TRUE)
       ELSE TRUE


\* ------------------------------------------------------------- the state
VARIABLES
  cache,            \* content of the LevelDB store
  cache0,           \* its content when the process started (history)
  RESET_CACHE,      \* process.env['RESET_CACHE'] === 'true'
  MONGO_URI,        \* process.env['MONGO_URI']: "unset", "invalid", "valid"
  pc,               \* position of the default export / bootstrapFn
  exitCode,         \* argument of process.exit, -1 while the process lives
  levelDB,          \* the store singleton: "closed" or "open"
  readyState,       \* mongoose.connection.readyState, 0..3
  mongodbAccessible,\* bootstrapFn's const, valid once probeDone
  probeDone,
  needsMongoDB,     \* bootstrapFn's const, valid once decisionDone
  decisionDone,
  handleThrew,      \* getLevelDB() threw inside the Decision (history)
  failedKeys,       \* keys whose read failed inside the Decision (history)
  mongoConnected,   \* bootstrapFn's let, read by the injected provider
  socketOpen,       \* the probe's socket exists
  resolved,         \* the probe's one-shot flag
  resolveCount,     \* calls of the probe promise's resolve()
  promiseValue,     \* "pending", or the value the probe promise settled to
  firstEvent,       \* first socket event delivered, "none" before
  evCount,          \* socket events delivered
  tcpTests,         \* transport-level connection tests opened
  connectCalls,     \* invocations of connectToDatabase
  mongooseConnects, \* invocations of mongoose.connect
  established,      \* mongoose.connect returned with readyState 1 (history)
  appBootstraps,    \* invocations of bootstrapApplication
  resetOutcome,     \* the reset block of lines 237-248: "skipped",
                    \* "createFailed", "resetFailed" or "cleared" (history)
  initFailed,       \* createLevelDB failed inside initializeLevelDB (history)
  closeOutcome,     \* the close of lines 182-183: "none" (nothing to
                    \* close), "closed" or "failed" (history)
  stateAtConnect,   \* readyState when mongoose.connect was issued, -1 before
  connectReturnedState, \* readyState after mongoose.connect returned
                    \* normally, -1 otherwise (history)
  connResult,       \* what connectToDatabase gave its caller: "none",
                    \* "true", "false" or "raised"
  handlers,         \* per signal delivery: the signal, the position of its
                    \* handler, and what its cleanup did with the
                    \* connection (db) and with the store (store)
  dbCloseCalls,     \* mongoose.connection.close calls made by cleanup
  cacheCloseCalls,  \* closeLevelDB calls made by cleanup
  storeCloses       \* close operations issued on the open store

vars == <<cache, cache0, RESET_CACHE, MONGO_URI, pc, exitCode, levelDB,
          readyState, mongodbAccessible, probeDone, needsMongoDB,
          decisionDone, handleThrew, failedKeys, mongoConnected, socketOpen,
          resolved, resolveCount, promiseValue, firstEvent, evCount,
          tcpTests, connectCalls, mongooseConnects, established,
          appBootstraps, resetOutcome, initFailed, closeOutcome,
          stateAtConnect, connectReturnedState, connResult, handlers,
          dbCloseCalls, cacheCloseCalls, storeCloses>>

envVars == <<cache0, RESET_CACHE, MONGO_URI>>
probeVars == <<socketOpen, resolved, resolveCount, promiseValue, firstEvent,
               evCount>>
decisionVars == <<needsMongoDB, decisionDone, handleThrew, failedKeys>>
connVars == <<mongoConnected, connectCalls, mongooseConnects, established>>
initVars == <<resetOutcome, initFailed>>
connHist == <<closeOutcome, stateAtConnect, connectReturnedState, connResult>>
shutdownVars == <<handlers, dbCloseCalls, cacheCloseCalls, storeCloses>>

MaxSignals == 2
HandlerIds == 1..MaxSignals
Signals == {"SIGINT", "SIGTERM"}
\* A handler that has not been invoked.
idleHandler == [sig |-> "none", at |-> "idle", db |-> "none", store |-> "none"]

UriKinds == {"unset", "invalid", "valid"}
ReadyStates == 0..3
SocketEvents == {"connect", "timeout", "error"}

\* The caches a whole bootstrap run is explored over: every aggregated value,
\* a site record that is absent or lists at most one page, pages absent or
\* well-formed. The Decision alone is explored over all of Caches
\* (SpecDecision).
BootCaches ==
  {c \in Caches : /\ c.site.kind \in {"absent", "array"}
                  /\ Len(c.site.pageOrder) <= 1
                  /\ \A p \in PageIds : c.pages[p] \in {"absent", "ok"}}

Init ==
  /\ cache \in BootCaches
  /\ cache0 = cache
  /\ RESET_CACHE \in BOOLEAN
  /\ MONGO_URI \in UriKinds
  /\ pc = "Start"
  /\ exitCode = -1
  /\ levelDB = "closed"
  /\ readyState \in ReadyStates
  /\ mongodbAccessible = FALSE
  /\ probeDone = FALSE
  /\ needsMongoDB = FALSE
  /\ decisionDone = FALSE
  /\ handleThrew = FALSE
  /\ failedKeys = {}
  /\ mongoConnected = FALSE
  /\ socketOpen = FALSE
  /\ resolved = FALSE
  /\ resolveCount = 0
  /\ promiseValue = "pending"
  /\ firstEvent = "none"
  /\ evCount = 0
  /\ tcpTests = 0
  /\ connectCalls = 0
  /\ mongooseConnects = 0
  /\ established = FALSE
  /\ appBootstraps = 0
  /\ resetOutcome = "skipped"
  /\ initFailed = FALSE
  /\ closeOutcome = "none"
  /\ stateAtConnect = -1
  /\ connectReturnedState = -1
  /\ connResult = "none"
  /\ handlers = [h \in HandlerIds |-> idleHandler]
  /\ dbCloseCalls = 0
  /\ cacheCloseCalls = 0
  /\ storeCloses = 0

\* process.exit(code)
processExit(code) ==
  /\ pc' = "Exited"
  /\ exitCode' = code

\* ------------------------------------------------- default export, entry
\* Lines 308-321: close a connection left over by an earlier run; a failing
\* close is caught and logged.
cleanupPrevious ==
  /\ pc = "Start"
  /\ \E closeOk \in BOOLEAN :
       readyState' = IF readyState # 0 /\ closeOk THEN 0 ELSE readyState
  /\ pc' = "Reset"
  /\ UNCHANGED <<cache, envVars, exitCode, levelDB, mongodbAccessible,
                 probeDone, decisionVars, probeVars, tcpTests, connVars,
                 appBootstraps>>
  /\ UNCHANGED shutdownVars
  /\ UNCHANGED initVars
  /\ UNCHANGED connHist

\* ------------------------------------------------------------ bootstrapFn
\* createLevelDB(): reuses the open singleton, otherwise opens the store,
\* which may fail.
createLevelDBOk(ok) == levelDB = "open" \/ ok

\* Variant: the test of line 237 is inverted.
resetRequestedInverted(flag) == ~flag

\* The test of line 237.
resetRequested(flag) == flag

\* Lines 236-248: with RESET_CACHE, open the store and clear it; any error is
\* caught and logged.
resetStep ==
  /\ pc = "Reset"
  /\ \E createOk \in BOOLEAN, resetOk \in BOOLEAN :
       IF resetRequested(RESET_CACHE)
       THEN /\ levelDB' = IF createLevelDBOk(createOk) THEN "open" ELSE levelDB
            /\ cache' = IF createLevelDBOk(createOk) /\ resetOk
                        THEN EmptyCache ELSE cache
            /\ resetOutcome' = IF ~createLevelDBOk(createOk) THEN "createFailed"
                               ELSE IF ~resetOk THEN "resetFailed"
                               ELSE "cleared"
       ELSE UNCHANGED <<levelDB, cache, resetOutcome>>
  /\ UNCHANGED initFailed
  /\ pc' = "Init"
  /\ UNCHANGED <<envVars, exitCode, readyState, mongodbAccessible, probeDone,
                 decisionVars, probeVars, tcpTests, connVars, appBootstraps>>
  /\ UNCHANGED shutdownVars
  /\ UNCHANGED connHist

\* Variant: the catch of lines 41-44 logs and does not exit.
initializeLevelDBNoExit ==
  /\ pc = "Init"
  /\ \E createOk \in BOOLEAN :
       /\ levelDB' = IF createLevelDBOk(createOk) THEN "open" ELSE levelDB
       /\ initFailed' = ~createLevelDBOk(createOk)
  /\ UNCHANGED resetOutcome
  /\ pc' = "Probe"
  /\ UNCHANGED <<cache, envVars, exitCode, readyState, mongodbAccessible,
                 probeDone, decisionVars, probeVars, tcpTests, connVars,
                 appBootstraps>>
  /\ UNCHANGED shutdownVars
  /\ UNCHANGED connHist

\* Lines 37-45 and 251: initializeLevelDB.
initializeLevelDB ==
  /\ pc = "Init"
  /\ \E createOk \in BOOLEAN :
       /\ initFailed' = ~createLevelDBOk(createOk)
       /\ IF createLevelDBOk(createOk)
          THEN /\ levelDB' = "open"
               /\ pc' = "Probe"
               /\ UNCHANGED exitCode
          ELSE /\ processExit(1)
               /\ UNCHANGED levelDB
  /\ UNCHANGED resetOutcome
  /\ UNCHANGED <<cache, envVars, readyState, mongodbAccessible, probeDone,
                 decisionVars, probeVars, tcpTests, connVars, appBootstraps>>
  /\ UNCHANGED shutdownVars
  /\ UNCHANGED connHist

\* -------------------------------------------------- checkMongoDBConnectivity
\* Variant: a missing MONGO_URI is treated as fatal.
checkMongoDBConnectivityUriRequired ==
  /\ pc = "Probe"
  /\ IF MONGO_URI = "valid"
     THEN /\ socketOpen' = TRUE
          /\ tcpTests' = tcpTests + 1
          /\ pc' = "ProbeWait"
          /\ UNCHANGED <<mongodbAccessible, probeDone, exitCode>>
     ELSE IF MONGO_URI = "unset"
     THEN /\ processExit(1)
          /\ UNCHANGED <<mongodbAccessible, probeDone, socketOpen, tcpTests>>
     ELSE /\ mongodbAccessible' = FALSE
          /\ probeDone' = TRUE
          /\ pc' = "Decide"
          /\ UNCHANGED <<socketOpen, tcpTests, exitCode>>
  /\ UNCHANGED <<cache, envVars, levelDB, readyState, decisionVars,
                 resolved, resolveCount, promiseValue, firstEvent, evCount,
                 connVars, appBootstraps>>
  /\ UNCHANGED <<shutdownVars, initVars, connHist>>

\* Variant: line 254 does not await the probe, so that bootstrapFn goes on
\* to the Decision while the socket is still connecting.
checkMongoDBConnectivityNotAwaited ==
  /\ pc = "Probe"
  /\ IF MONGO_URI = "valid"
     THEN /\ socketOpen' = TRUE
          /\ tcpTests' = tcpTests + 1
          /\ pc' = "Decide"
          /\ UNCHANGED <<mongodbAccessible, probeDone>>
     ELSE /\ mongodbAccessible' = FALSE
          /\ probeDone' = TRUE
          /\ pc' = "Decide"
          /\ UNCHANGED <<socketOpen, tcpTests>>
  /\ UNCHANGED <<cache, envVars, exitCode, levelDB, readyState, decisionVars,
                 resolved, resolveCount, promiseValue, firstEvent, evCount,
                 connVars, appBootstraps>>
  /\ UNCHANGED <<shutdownVars, initVars, connHist>>

\* Lines 375-429 up to socket.connect: no URI or an unparsable URI returns
\* false at once; otherwise the socket is created and the promise is pending.
checkMongoDBConnectivity ==
  /\ pc = "Probe"
  /\ IF MONGO_URI = "valid"
     THEN /\ socketOpen' = TRUE
          /\ tcpTests' = tcpTests + 1
          /\ pc' = "ProbeWait"
          /\ UNCHANGED <<mongodbAccessible, probeDone>>
     ELSE /\ mongodbAccessible' = FALSE
          /\ probeDone' = TRUE
          /\ pc' = "Decide"
          /\ UNCHANGED <<socketOpen, tcpTests>>
  /\ UNCHANGED <<cache, envVars, exitCode, levelDB, readyState, decisionVars,
                 resolved, resolveCount, promiseValue, firstEvent, evCount,
                 connVars, appBootstraps>>
  /\ UNCHANGED shutdownVars
  /\ UNCHANGED initVars
  /\ UNCHANGED connHist

\* Variant: the handlers of error and connect have their arguments swapped.
handlerSuccessSwapped(ev) == ev = "error"

\* Lines 410-425: what each handler passes to finalizeCheck: true from the
\* connect handler, false from the timeout and error handlers.
handlerSuccess(ev) == ev = "connect"

\* Variant: the test of line 398 is inverted, so that finalizeCheck never
\* resolves.
finalizeGuardInverted(isResolved) == isResolved

\* Variant: finalizeCheck without its one-shot guard.
finalizeGuardMissing(isResolved) == TRUE

\* finalizeCheck's guard, line 398.
finalizeGuard(isResolved) == ~isResolved

\* Lines 397-425: a socket event runs its handler, which calls
\* finalizeCheck(success). The promise keeps the first value it is resolved
\* with; bootstrapFn, when awaiting it (line 254), resumes with that value.
\* The events come in any order and number (up to MaxEvents); a socket that
\* connected first does not connect again.
socketEvent(ev) ==
  /\ socketOpen
  /\ pc # "Exited"
  /\ evCount < MaxEvents
  /\ ev = "connect" => firstEvent # "connect"
  /\ LET success == handlerSuccess(ev)
         fires == finalizeGuard(resolved)
         settles == fires /\ promiseValue = "pending"
     IN /\ resolved' = IF fires THEN TRUE ELSE resolved
        /\ resolveCount' = IF fires THEN resolveCount + 1 ELSE resolveCount
        /\ promiseValue' = IF settles
                           THEN (IF success THEN "true" ELSE "false")
                           ELSE promiseValue
        /\ IF settles /\ pc = "ProbeWait"
           THEN /\ mongodbAccessible' = success
                /\ probeDone' = TRUE
                /\ pc' = "Decide"
           ELSE UNCHANGED <<mongodbAccessible, probeDone, pc>>
  /\ firstEvent' = IF firstEvent = "none" THEN ev ELSE firstEvent
  /\ evCount' = evCount + 1
  /\ UNCHANGED <<cache, envVars, exitCode, levelDB, readyState, decisionVars,
                 socketOpen, tcpTests, connVars, appBootstraps>>
  /\ UNCHANGED <<shutdownVars, initVars, connHist>>

\* ------------------------------------------------------------ the Decision
\* Line 258: the Decision runs against the store; reads may fail.
decide ==
  /\ pc = "Decide"
  /\ \E handleThrows \in BOOLEAN, failing \in FaultSets,
        notFoundThrows \in BOOLEAN :
       /\ needsMongoDB' = checkCacheForRequiredData(cache, handleThrows,
                                                    failing, notFoundThrows)
       /\ handleThrew' = handleThrows
       /\ failedKeys' = IF handleThrows THEN {} ELSE failing
  /\ decisionDone' = TRUE
  /\ pc' = "Gate"
  /\ UNCHANGED <<cache, envVars, exitCode, levelDB, readyState,
                 mongodbAccessible, probeDone, probeVars, tcpTests, connVars,
                 appBootstraps>>
  /\ UNCHANGED shutdownVars
  /\ UNCHANGED initVars
  /\ UNCHANGED connHist

\* Variant: the accessibility test of line 261 is inverted.
failFastInverted(needs, accessible) == needs /\ accessible

\* Variant: line 261 exits whenever MongoDB is not accessible.
failFastAnyUnreachable(needs, accessible) == ~accessible

\* The condition of line 261.
failFast(needs, accessible) == needs /\ ~accessible

\* Variant: line 273 connects whenever MongoDB is accessible.
gateConnectsWhenAccessible ==
  /\ pc = "Gate"
  /\ IF failFast(needsMongoDB, mongodbAccessible)
     THEN processExit(1)
     ELSE /\ pc' = IF needsMongoDB \/ mongodbAccessible
                   THEN "Connect" ELSE "Bootstrap"
          /\ UNCHANGED exitCode
  /\ UNCHANGED <<cache, envVars, levelDB, readyState, mongodbAccessible,
                 probeDone, decisionVars, probeVars, tcpTests, connVars,
                 appBootstraps>>
  /\ UNCHANGED shutdownVars
  /\ UNCHANGED initVars
  /\ UNCHANGED connHist

\* Lines 260-285: fail fast, connect, or skip the connection.
gate ==
  /\ pc = "Gate"
  /\ IF failFast(needsMongoDB, mongodbAccessible)
     THEN processExit(1)
     ELSE /\ pc' = IF needsMongoDB THEN "Connect" ELSE "Bootstrap"
          /\ UNCHANGED exitCode
  /\ UNCHANGED <<cache, envVars, levelDB, readyState, mongodbAccessible,
                 probeDone, decisionVars, probeVars, tcpTests, connVars,
                 appBootstraps>>
  /\ UNCHANGED shutdownVars
  /\ UNCHANGED initVars
  /\ UNCHANGED connHist

\* ------------------------------------------------------- connectToDatabase
\* Lines 131-148: entry of connectToDatabase. No URI returns false; an
\* unparsable URI throws inside the inner try and returns false; otherwise
\* the TCP connection test is started.
connectToDatabase ==
  /\ pc = "Connect"
  /\ connectCalls' = connectCalls + 1
  /\ IF MONGO_URI = "valid"
     THEN /\ tcpTests' = tcpTests + 1
          /\ pc' = "ConnTcp"
          /\ UNCHANGED connResult
     ELSE /\ pc' = "ConnReturn"
          /\ connResult' = "false"
          /\ UNCHANGED tcpTests
  /\ UNCHANGED <<closeOutcome, stateAtConnect, connectReturnedState>>
  /\ UNCHANGED <<cache, envVars, exitCode, levelDB, readyState,
                 mongodbAccessible, probeDone, decisionVars, probeVars,
                 mongoConnected, mongooseConnects, established, appBootstraps>>
  /\ UNCHANGED shutdownVars
  /\ UNCHANGED initVars

\* Lines 150-178: the TCP connection test resolves or rejects; a rejection
\* returns false.
testConnection ==
  /\ pc = "ConnTcp"
  /\ \E ok \in BOOLEAN :
       /\ pc' = IF ok THEN "ConnClose" ELSE "ConnReturn"
       /\ connResult' = IF ok THEN connResult ELSE "false"
  /\ UNCHANGED <<closeOutcome, stateAtConnect, connectReturnedState>>
  /\ UNCHANGED <<cache, envVars, exitCode, levelDB, readyState,
                 mongodbAccessible, probeDone, decisionVars, probeVars,
                 tcpTests, connVars, appBootstraps>>
  /\ UNCHANGED shutdownVars
  /\ UNCHANGED initVars

\* Variant: the block of lines 180-188 is missing.
closeExistingSkipped ==
  /\ pc = "ConnClose"
  /\ pc' = "ConnOpen"
  /\ UNCHANGED <<cache, envVars, exitCode, levelDB, readyState,
                 mongodbAccessible, probeDone, decisionVars, probeVars,
                 tcpTests, connVars, appBootstraps>>
  /\ UNCHANGED <<shutdownVars, initVars, connHist>>

\* Lines 180-188: close an existing connection; a failing close is caught.
closeExisting ==
  /\ pc = "ConnClose"
  /\ \E closeOk \in BOOLEAN :
       /\ readyState' = IF readyState # 0 /\ closeOk THEN 0 ELSE readyState
       /\ closeOutcome' = IF readyState = 0 THEN "none"
                          ELSE IF closeOk THEN "closed" ELSE "failed"
  /\ UNCHANGED <<stateAtConnect, connectReturnedState, connResult>>
  /\ pc' = "ConnOpen"
  /\ UNCHANGED <<cache, envVars, exitCode, levelDB, mongodbAccessible,
                 probeDone, decisionVars, probeVars, tcpTests, connVars,
                 appBootstraps>>
  /\ UNCHANGED shutdownVars
  /\ UNCHANGED initVars

\* Variant: a connection still connecting passes the test of line 217.
verifyConnectedLoose(rs) == rs \in {1, 2}

\* Line 217: the connection counts only in the connected state.
verifyConnected(rs) == rs = 1

\* Variant: the throws of lines 214 and 219 are not inside the try.
connectOutcomeUncaught(threw, rs) ==
  IF threw THEN "raised"
  ELSE IF verifyConnected(rs) THEN "true" ELSE "raised"

\* Lines 214-230: what connectToDatabase returns once mongoose.connect has
\* rejected (threw) or returned with the connection in state rs; the throw
\* of line 219 and a rejection both land in the catch of line 224.
connectOutcome(threw, rs) ==
  IF threw THEN "false"
  ELSE IF verifyConnected(rs) THEN "true" ELSE "false"

\* Lines 214-230: mongoose.connect rejects, or returns leaving the connection
\* in some state; anything but a verified connection returns false.
mongooseConnect ==
  /\ pc = "ConnOpen"
  /\ mongooseConnects' = mongooseConnects + 1
  /\ stateAtConnect' = readyState
  /\ \E threw \in BOOLEAN, rs \in ReadyStates :
       /\ readyState' = IF threw THEN 0 ELSE rs
       /\ connectReturnedState' = IF threw THEN -1 ELSE rs
       /\ connResult' = connectOutcome(threw, rs)
       /\ mongoConnected' = (connectOutcome(threw, rs) = "true")
       /\ established' = (~threw /\ rs = 1)
  /\ UNCHANGED closeOutcome
  /\ pc' = "ConnReturn"
  /\ UNCHANGED <<cache, envVars, exitCode, levelDB, mongodbAccessible,
                 probeDone, decisionVars, probeVars, tcpTests, connectCalls,
                 appBootstraps>>
  /\ UNCHANGED shutdownVars
  /\ UNCHANGED initVars

\* Variant: the check of line 278 is missing.
connectFailedIgnored(connected) == FALSE

\* The critical check of line 278.
connectFailed(connected) == ~connected

\* Variant: a failed connect is retried once before giving up.
afterConnectRetries ==
  /\ pc = "ConnReturn"
  /\ IF connectFailed(mongoConnected)
     THEN IF connectCalls < 2
          THEN /\ pc' = "Connect"
               /\ UNCHANGED exitCode
          ELSE processExit(1)
     ELSE /\ pc' = "Bootstrap"
          /\ UNCHANGED exitCode
  /\ UNCHANGED <<cache, envVars, levelDB, readyState, mongodbAccessible,
                 probeDone, decisionVars, probeVars, tcpTests, connVars,
                 appBootstraps>>
  /\ UNCHANGED <<shutdownVars, initVars, connHist>>

\* Lines 275-282: back in bootstrapFn with connectToDatabase's result.
afterConnect ==
  /\ pc = "ConnReturn"
  /\ IF connectFailed(mongoConnected)
     THEN processExit(1)
     ELSE /\ pc' = "Bootstrap"
          /\ UNCHANGED exitCode
  /\ UNCHANGED <<cache, envVars, levelDB, readyState, mongodbAccessible,
                 probeDone, decisionVars, probeVars, tcpTests, connVars,
                 appBootstraps>>
  /\ UNCHANGED shutdownVars
  /\ UNCHANGED initVars
  /\ UNCHANGED connHist

\* Lines 287-304: bootstrapApplication is invoked with the provider
\* async () => mongoConnected; a failure of it ends the process.
bootstrapApplication ==
  /\ pc = "Bootstrap"
  /\ appBootstraps' = appBootstraps + 1
  /\ \E ok \in BOOLEAN :
       IF ok
       THEN /\ pc' = "Running"
            /\ UNCHANGED exitCode
       ELSE processExit(1)
  /\ UNCHANGED <<cache, envVars, levelDB, readyState, mongodbAccessible,
                 probeDone, decisionVars, probeVars, tcpTests, connVars>>
  /\ UNCHANGED shutdownVars
  /\ UNCHANGED initVars
  /\ UNCHANGED connHist

\* What the injected provider resolves to (line 298).
providerValue == mongoConnected

Next ==
  \/ cleanupPrevious
  \/ resetStep
  \/ initializeLevelDB
  \/ checkMongoDBConnectivity
  \/ \E ev \in SocketEvents : socketEvent(ev)
  \/ decide
  \/ gate
  \/ connectToDatabase
  \/ testConnection
  \/ closeExisting
  \/ mongooseConnect
  \/ afterConnect
  \/ bootstrapApplication

Spec == Init /\ [][Next]_vars

\* Every awaited operation of the run returns (the awaits of lines 241-243,
\* 251, 258, 275, 290 and 313, and those inside connectToDatabase), the probe
\* socket emits an event while bootstrapFn awaits the probe (line 254), and
\* the synchronous code between awaits runs on.
Fairness ==
  /\ WF_vars(cleanupPrevious)
  /\ WF_vars(resetStep)
  /\ WF_vars(initializeLevelDB)
  /\ WF_vars(checkMongoDBConnectivity)
  /\ WF_vars(pc = "ProbeWait" /\ \E ev \in SocketEvents : socketEvent(ev))
  /\ WF_vars(decide)
  /\ WF_vars(gate)
  /\ WF_vars(connectToDatabase)
  /\ WF_vars(testConnection)
  /\ WF_vars(closeExisting)
  /\ WF_vars(mongooseConnect)
  /\ WF_vars(afterConnect)
  /\ WF_vars(bootstrapApplication)

SpecFair == Spec /\ Fairness

\* The Decision on its own, over every cache content: the state in which
\* bootstrapFn reaches line 258 after a probe without MONGO_URI.
InitDecision ==
  /\ cache \in Caches
  /\ cache0 = cache
  /\ RESET_CACHE = FALSE
  /\ MONGO_URI = "unset"
  /\ pc = "Decide"
  /\ exitCode = -1
  /\ levelDB = "open"
  /\ readyState = 0
  /\ mongodbAccessible = FALSE
  /\ probeDone = TRUE
  /\ needsMongoDB = FALSE
  /\ decisionDone = FALSE
  /\ handleThrew = FALSE
  /\ failedKeys = {}
  /\ mongoConnected = FALSE
  /\ socketOpen = FALSE
  /\ resolved = FALSE
  /\ resolveCount = 0
  /\ promiseValue = "pending"
  /\ firstEvent = "none"
  /\ evCount = 0
  /\ tcpTests = 0
  /\ connectCalls = 0
  /\ mongooseConnects = 0
  /\ established = FALSE
  /\ appBootstraps = 0
  /\ resetOutcome = "skipped"
  /\ initFailed = FALSE
  /\ closeOutcome = "none"
  /\ stateAtConnect = -1
  /\ connectReturnedState = -1
  /\ connResult = "none"
  /\ handlers = [h \in HandlerIds |-> idleHandler]
  /\ dbCloseCalls = 0
  /\ cacheCloseCalls = 0
  /\ storeCloses = 0

NextDecision == decide

\* ------------------------------------------------- shutdown, lines 323-359
\* closeLevelDB is called (line 334): a close is issued on the store unless
\* the store is already closed.
closeLevelDB ==
  /\ cacheCloseCalls' = cacheCloseCalls + 1
  /\ storeCloses' = storeCloses + (IF levelDB # "closed" THEN 1 ELSE 0)

\* Lines 349-359 and 324-331: a SIGINT or SIGTERM is delivered to the running
\* process; its handler enters cleanup, which calls close on a connection
\* that is not disconnected and awaits it, and otherwise goes on to
\* closeLevelDB. The two handlers have the same body; deliveries are
\* numbered in order of arrival.
signalHandler(h, sig) ==
  /\ pc = "Running"
  /\ handlers[h].at = "idle"
  /\ \A g \in HandlerIds : g < h => handlers[g].at # "idle"
  /\ IF readyState # 0
     THEN /\ handlers' = [handlers EXCEPT ![h] =
                           [sig |-> sig, at |-> "awaitDb", db |-> "pending",
                            store |-> "none"]]
          /\ dbCloseCalls' = dbCloseCalls + 1
          /\ UNCHANGED <<cacheCloseCalls, storeCloses>>
     ELSE /\ handlers' = [handlers EXCEPT ![h] =
                           [sig |-> sig, at |-> "awaitCache", db |-> "skipped",
                            store |-> "pending"]]
          /\ closeLevelDB
          /\ UNCHANGED dbCloseCalls
  /\ UNCHANGED <<cache, envVars, pc, exitCode, levelDB, readyState,
                 mongodbAccessible, probeDone, decisionVars, probeVars,
                 tcpTests, connVars, appBootstraps, initVars, connHist>>

\* Variant: an error of the connection close reaches the catch of line 337,
\* so that cleanup returns without calling closeLevelDB.
dbCloseReturnAbortsOnFailure(h) ==
  /\ pc = "Running"
  /\ handlers[h].at = "awaitDb"
  /\ \E ok \in BOOLEAN :
       IF ok
       THEN /\ readyState' = 0
            /\ handlers' = [handlers EXCEPT ![h].at = "awaitCache",
                                            ![h].db = "closed",
                                            ![h].store = "pending"]
            /\ closeLevelDB
            /\ UNCHANGED <<pc, exitCode>>
       ELSE /\ readyState' = readyState
            /\ handlers' = [handlers EXCEPT ![h].at = "exited",
                                            ![h].db = "failed"]
            /\ processExit(0)
            /\ UNCHANGED <<cacheCloseCalls, storeCloses>>
  /\ UNCHANGED <<cache, envVars, levelDB, mongodbAccessible, probeDone,
                 decisionVars, probeVars, tcpTests, connVars, appBootstraps,
                 dbCloseCalls, initVars, connHist>>

\* Lines 328-336: the awaited close of the connection settles; a rejection
\* is logged by the .catch of line 330; cleanup goes on to closeLevelDB and
\* awaits it.
dbCloseReturn(h) ==
  /\ pc = "Running"
  /\ handlers[h].at = "awaitDb"
  /\ \E ok \in BOOLEAN :
       /\ readyState' = IF ok THEN 0 ELSE readyState
       /\ handlers' = [handlers EXCEPT ![h].at = "awaitCache",
                                       ![h].db = IF ok THEN "closed"
                                                 ELSE "failed",
                                       ![h].store = "pending"]
  /\ closeLevelDB
  /\ UNCHANGED <<cache, envVars, pc, exitCode, levelDB, mongodbAccessible,
                 probeDone, decisionVars, probeVars, tcpTests, connVars,
                 appBootstraps, dbCloseCalls, initVars, connHist>>

\* Lines 334-340 and 352, 358: the awaited closeLevelDB settles; a rejection
\* is logged by the .catch of line 336; cleanup returns and the handler
\* ends the process with status 0.
cacheCloseReturn(h) ==
  /\ pc = "Running"
  /\ handlers[h].at = "awaitCache"
  /\ \E ok \in BOOLEAN :
       /\ levelDB' = IF ok THEN "closed" ELSE levelDB
       /\ handlers' = [handlers EXCEPT ![h].at = "exited",
                                       ![h].store = IF ok THEN "closed"
                                                    ELSE "failed"]
  /\ processExit(0)
  /\ UNCHANGED <<cache, envVars, readyState, mongodbAccessible, probeDone,
                 decisionVars, probeVars, tcpTests, connVars, appBootstraps,
                 dbCloseCalls, cacheCloseCalls, storeCloses, initVars,
                 connHist>>

\* The process once the default export has registered the handlers (lines
\* 349-359): a cache-only run without a URI, whose connection is in whatever
\* state the cleanup of lines 311-319 left it, or a run that connected.
RunningCache ==
  [agg |-> "absent", site |-> [kind |-> "array", pageOrder |-> <<>>],
   pages |-> [p \in PageIds |-> "ok"]]

InitShutdown ==
  /\ pc = "Running"
  /\ exitCode = -1
  /\ levelDB = "open"
  /\ appBootstraps = 1
  /\ RESET_CACHE = FALSE
  /\ probeDone = TRUE
  /\ decisionDone = TRUE
  /\ handleThrew = FALSE
  /\ failedKeys = {}
  /\ resetOutcome = "skipped"
  /\ initFailed = FALSE
  /\ closeOutcome = "none"
  /\ handlers = [h \in HandlerIds |-> idleHandler]
  /\ dbCloseCalls = 0
  /\ cacheCloseCalls = 0
  /\ storeCloses = 0
  /\ \/ /\ MONGO_URI = "unset"
        /\ cache = RunningCache
        /\ readyState \in ReadyStates
        /\ mongodbAccessible = FALSE
        /\ needsMongoDB = FALSE
        /\ mongoConnected = FALSE
        /\ socketOpen = FALSE
        /\ resolved = FALSE
        /\ resolveCount = 0
        /\ promiseValue = "pending"
        /\ firstEvent = "none"
        /\ evCount = 0
        /\ tcpTests = 0
        /\ connectCalls = 0
        /\ mongooseConnects = 0
        /\ established = FALSE
        /\ stateAtConnect = -1
        /\ connectReturnedState = -1
        /\ connResult = "none"
     \/ /\ MONGO_URI = "valid"
        /\ cache = EmptyCache
        /\ readyState = 1
        /\ mongodbAccessible = TRUE
        /\ needsMongoDB = TRUE
        /\ mongoConnected = TRUE
        /\ socketOpen = TRUE
        /\ resolved = TRUE
        /\ resolveCount = 1
        /\ promiseValue = "true"
        /\ firstEvent = "connect"
        /\ evCount = 1
        /\ tcpTests = 2
        /\ connectCalls = 1
        /\ mongooseConnects = 1
        /\ established = TRUE
        /\ stateAtConnect = 0
        /\ connectReturnedState = 1
        /\ connResult = "true"
  /\ cache0 = cache

NextShutdown ==
  \/ \E h \in HandlerIds, sig \in Signals : signalHandler(h, sig)
  \/ \E h \in HandlerIds : dbCloseReturn(h)
  \/ \E h \in HandlerIds : cacheCloseReturn(h)

SpecShutdown == InitShutdown /\ [][NextShutdown]_vars

\* connectToDatabase on its own: the exported function called with any URI
\* setting and any state of the mongoose connection.
InitConnect ==
  /\ cache = EmptyCache
  /\ cache0 = cache
  /\ RESET_CACHE = FALSE
  /\ MONGO_URI \in UriKinds
  /\ pc = "Connect"
  /\ exitCode = -1
  /\ levelDB \in {"closed", "open"}
  /\ readyState \in ReadyStates
  /\ mongodbAccessible = FALSE
  /\ probeDone = FALSE
  /\ needsMongoDB = FALSE
  /\ decisionDone = FALSE
  /\ handleThrew = FALSE
  /\ failedKeys = {}
  /\ mongoConnected = FALSE
  /\ socketOpen = FALSE
  /\ resolved = FALSE
  /\ resolveCount = 0
  /\ promiseValue = "pending"
  /\ firstEvent = "none"
  /\ evCount = 0
  /\ tcpTests = 0
  /\ connectCalls = 0
  /\ mongooseConnects = 0
  /\ established = FALSE
  /\ appBootstraps = 0
  /\ resetOutcome = "skipped"
  /\ initFailed = FALSE
  /\ closeOutcome = "none"
  /\ stateAtConnect = -1
  /\ connectReturnedState = -1
  /\ connResult = "none"
  /\ handlers = [h \in HandlerIds |-> idleHandler]
  /\ dbCloseCalls = 0
  /\ cacheCloseCalls = 0
  /\ storeCloses = 0

NextConnect ==
  \/ connectToDatabase
  \/ testConnection
  \/ closeExisting
  \/ mongooseConnect

SpecConnect == InitConnect /\ [][NextConnect]_vars

SpecDecision == InitDecision /\ [][NextDecision]_vars

TypeOK ==
  /\ cache \in Caches
  /\ pc \in {"Start", "Reset", "Init", "Probe", "ProbeWait", "Decide", "Gate",
             "Connect", "ConnTcp", "ConnClose", "ConnOpen", "ConnReturn",
             "Bootstrap", "Running", "Exited"}
  /\ exitCode \in {-1, 0, 1}
  /\ readyState \in ReadyStates
  /\ promiseValue \in {"pending", "true", "false"}
  /\ closeOutcome \in {"none", "closed", "failed"}
  /\ connResult \in {"none", "true", "false", "raised"}
  /\ handlers \in [HandlerIds ->
                    [sig : Signals \cup {"none"},
                     at : {"idle", "awaitDb", "awaitCache", "exited"},
                     db : {"none", "skipped", "pending", "closed", "failed"},
                     store : {"none", "pending", "closed", "failed"}]]
  /\ dbCloseCalls \in 0..MaxSignals
  /\ cacheCloseCalls \in 0..MaxSignals
  /\ storeCloses \in 0..MaxSignals

\* ================================================================ claims
\* Vocabulary of the claims about the Decision.
CacheSufficient == decisionDone /\ ~needsMongoDB
DatabaseRequired == decisionDone /\ needsMongoDB
ReadsSucceeded == ~handleThrew /\ failedKeys = {}
ListedPages == {cache.site.pageOrder[i] : i \in 1..Len(cache.site.pageOrder)}
\* A page record that is an object with a data field that is not null.
PageHasData(p) == cache.pages[p] \in {"datafalsy", "ok"}

\* C1: the Decision reports "cache sufficient" only if (a) the aggregated
\* site-content record exists, or (b) the site record exists and every page
\* id of its pageOrder resolves to a page record with a non-null data field.
C1_SufficientOnlyIfCached ==
  CacheSufficient =>
    \/ cache.agg # "absent"
    \/ /\ cache.site.kind # "absent"
       /\ \A p \in ListedPages : PageHasData(p)

\* C1 witness: sufficient through case (b), with pages actually listed.
C1_Witness ==
  /\ CacheSufficient
  /\ cache.agg = "absent"
  /\ Len(cache.site.pageOrder) = 2
  /\ cache.site.pageOrder[1] # cache.site.pageOrder[2]

\* C7 as stated: whenever the aggregated key exists, whatever value it
\* holds, the Decision is CACHE_SUFFICIENT (reads succeeding).
C7_Original ==
  (decisionDone /\ ReadsSucceeded /\ cache.agg # "absent") => ~needsMongoDB

\* C7 amended: when the aggregated key holds a truthy value and the store
\* handle and the read of that key succeed, the Decision is CACHE_SUFFICIENT,
\* whatever the site key and page keys hold.
C7_TruthyAggregateSuffices ==
  (decisionDone /\ ~handleThrew /\ siteContentKey \notin failedKeys
     /\ cache.agg = "truthy") => ~needsMongoDB

\* C7 witness: truthy aggregate, no site record, listed pages absent.
C7_Witness ==
  /\ CacheSufficient
  /\ cache.agg = "truthy"
  /\ cache.site.kind = "absent"
  /\ \A p \in PageIds : cache.pages[p] = "absent"

\* C8 as stated: aggregated key absent, site record present and every page
\* it lists present with non-null data give CACHE_SUFFICIENT (reads
\* succeeding).
C8_Original ==
  (decisionDone /\ ReadsSucceeded /\ cache.agg = "absent"
     /\ cache.site.kind # "absent"
     /\ \A p \in ListedPages : PageHasData(p)) => ~needsMongoDB

\* C8 amended: aggregated key absent, site record present with a pageOrder
\* that is a sequence, every listed page present with non-null data, and all
\* reads succeeding, give CACHE_SUFFICIENT.
C8_SiteAndPagesSuffice ==
  (decisionDone /\ ReadsSucceeded /\ cache.agg = "absent"
     /\ cache.site.kind = "array"
     /\ \A p \in ListedPages : PageHasData(p)) => ~needsMongoDB

\* C8 witness: sufficient through listed pages, one of them with falsy data.
C8_Witness ==
  /\ CacheSufficient
  /\ ReadsSucceeded
  /\ cache.agg = "absent"
  /\ cache.site.kind = "array"
  /\ \E p \in ListedPages : cache.pages[p] = "datafalsy"

\* C9 as stated: a missing site record or a missing listed page gives
\* DATABASE_REQUIRED, for every cache content.
C9_Original ==
  (decisionDone
     /\ (cache.site.kind = "absent"
         \/ \E p \in ListedPages : cache.pages[p] = "absent"))
  => needsMongoDB

\* C9 amended: when the aggregated key is absent or holds a falsy value, a
\* missing site record or a missing listed page gives DATABASE_REQUIRED.
C9_MissingRequiresDatabase ==
  (decisionDone /\ cache.agg # "truthy"
     /\ (cache.site.kind = "absent"
         \/ \E p \in ListedPages : cache.pages[p] = "absent"))
  => needsMongoDB

\* C9 witness: the site record is there, one of two listed pages is absent.
C9_Witness ==
  /\ DatabaseRequired
  /\ ReadsSucceeded
  /\ cache.agg = "absent"
  /\ cache.site.kind = "array"
  /\ \E p \in ListedPages : cache.pages[p] = "absent"
  /\ \E p \in ListedPages : cache.pages[p] = "ok"

\* ------------------------------------------ claims about the orchestrator
\* RUNNING: the application bootstrap has been invoked with the provider.
Running == appBootstraps = 1
\* The orchestrator is past the branch of lines 260-285.
HandedOverOrAbout == pc = "Bootstrap" \/ Running
CacheUntouchedButReset ==
  \/ cache = cache0
  \/ RESET_CACHE /\ cache = EmptyCache

\* C2: with DATABASE_REQUIRED and an unreachable endpoint the process exits
\* with status 1; connectToDatabase and bootstrapApplication are never
\* invoked and the cache holds what it held at start, or nothing after the
\* initial reset.
C2_RequiredUnreachableAborts ==
  (decisionDone /\ needsMongoDB /\ ~mongodbAccessible) =>
    /\ connectCalls = 0
    /\ mongooseConnects = 0
    /\ appBootstraps = 0
    /\ CacheUntouchedButReset
    /\ pc # "Gate" => (pc = "Exited" /\ exitCode = 1)

\* C2 witness: aborted for that reason after a reset that emptied the cache.
C2_Witness ==
  /\ decisionDone /\ needsMongoDB /\ ~mongodbAccessible
  /\ pc = "Exited"
  /\ exitCode = 1
  /\ RESET_CACHE
  /\ cache0 # EmptyCache
  /\ cache = EmptyCache

\* C3: with CACHE_SUFFICIENT and an unreachable endpoint the orchestrator
\* goes on to invoke the application bootstrap, the provider resolves to
\* false and connectToDatabase is never invoked.
C3_SufficientUnreachableRuns ==
  (decisionDone /\ ~needsMongoDB /\ ~mongodbAccessible) =>
    /\ connectCalls = 0
    /\ mongooseConnects = 0
    /\ providerValue = FALSE
    /\ pc # "Gate" => HandedOverOrAbout
    /\ pc \in {"Running", "Exited"} => Running

\* C3 witness: running degraded, after the probe's socket reported an error.
C3_Witness ==
  /\ decisionDone /\ ~needsMongoDB /\ ~mongodbAccessible
  /\ pc = "Running"
  /\ firstEvent = "error"

\* C4: with DATABASE_REQUIRED and a reachable endpoint connectToDatabase is
\* invoked exactly once; on true the application bootstrap is invoked with
\* the provider resolving to true, on false the process exits with status 1
\* and the application bootstrap is never invoked.
C4_RequiredReachableConnects ==
  (decisionDone /\ needsMongoDB /\ mongodbAccessible) =>
    /\ connectCalls <= 1
    /\ pc \notin {"Gate", "Connect"} => connectCalls = 1
    /\ appBootstraps > 0 => providerValue = TRUE
    /\ (pc \in {"Bootstrap", "Running", "Exited"} /\ mongoConnected)
         => HandedOverOrAbout
    /\ (pc \in {"Bootstrap", "Running", "Exited"} /\ ~mongoConnected)
         => (pc = "Exited" /\ exitCode = 1 /\ appBootstraps = 0)

\* C4 witness: the connection succeeded and the application is running.
C4_Witness ==
  /\ decisionDone /\ needsMongoDB /\ mongodbAccessible
  /\ pc = "Running"
  /\ connectCalls = 1
  /\ providerValue = TRUE

\* C5: the application bootstrap is invoked only with the cache store
\* initialized and with the Decision CACHE_SUFFICIENT or connectToDatabase
\* having returned true; never after one of the three abort causes.
C5_RunningImpliesReady ==
  (pc \in {"Bootstrap", "Running"} \/ appBootstraps > 0) =>
    /\ levelDB = "open"
    /\ decisionDone
    /\ ~needsMongoDB \/ (connectCalls = 1 /\ mongoConnected)
    /\ ~(needsMongoDB /\ ~mongodbAccessible)

\* C5 witness: an abort by a failed required connect, nothing handed over.
C5_Witness ==
  /\ pc = "Exited"
  /\ exitCode = 1
  /\ needsMongoDB
  /\ mongooseConnects = 1
  /\ ~mongoConnected
  /\ appBootstraps = 0

\* C6: one invocation of the probe calls resolve at most once, has resolved
\* as soon as one socket event was delivered, and no later event changes the
\* settled value or the value bootstrapFn received.
C6_ProbeResolvesOnce ==
  /\ [](resolveCount <= 1)
  /\ [](evCount > 0 => (resolveCount = 1 /\ promiseValue # "pending"))
  /\ [][promiseValue # "pending" =>
          (promiseValue' = promiseValue /\ resolveCount' = resolveCount)]_vars
  /\ [][probeDone =>
          (probeDone' /\ mongodbAccessible' = mongodbAccessible)]_vars

\* C6 witness: several events were delivered, an error first, after a
\* failure result.
C6_Witness ==
  /\ evCount = MaxEvents
  /\ firstEvent = "error"
  /\ resolveCount = 1
  /\ promiseValue = "false"

\* C10: with CACHE_SUFFICIENT and a reachable endpoint the orchestrator goes
\* on to invoke the application bootstrap without invoking connectToDatabase,
\* and the provider's flag is true only if a connection was established.
C10_SufficientReachableSkips ==
  (decisionDone /\ ~needsMongoDB /\ mongodbAccessible) =>
    /\ connectCalls = 0
    /\ mongooseConnects = 0
    /\ providerValue => established
    /\ pc # "Gate" => HandedOverOrAbout

\* C10 witness: running from the cache with the endpoint reachable.
C10_Witness ==
  /\ decisionDone /\ ~needsMongoDB /\ mongodbAccessible
  /\ pc = "Running"
  /\ providerValue = FALSE

\* C11 as stated: after any failing createLevelDB call, in the reset block
\* or in initializeLevelDB, the process exits with status 1 and the probe,
\* the Decision and connectToDatabase never run.
C11_Original ==
  (resetOutcome = "createFailed" \/ initFailed) =>
    /\ pc \in {"Init", "Exited"}
    /\ pc = "Exited" => exitCode = 1
    /\ ~probeDone /\ tcpTests = 0
    /\ ~decisionDone
    /\ connectCalls = 0

\* C11 amended: a failure of the createLevelDB call made by
\* initializeLevelDB exits with status 1, and the probe, the Decision,
\* connectToDatabase and the application bootstrap never run after it,
\* with or without the reset flag.
C11_InitFailureIsFatal ==
  initFailed =>
    /\ pc = "Exited" /\ exitCode = 1
    /\ ~probeDone /\ tcpTests = 0
    /\ ~decisionDone
    /\ connectCalls = 0
    /\ appBootstraps = 0

\* C11 witness: with the reset flag set, both createLevelDB calls failed.
C11_Witness ==
  /\ initFailed
  /\ RESET_CACHE
  /\ resetOutcome = "createFailed"
  /\ pc = "Exited"

\* C12 as stated: with the reset flag set, the cache has been cleared
\* whenever the Decision has read it.
C12_Original ==
  (RESET_CACHE /\ decisionDone) => resetOutcome = "cleared"

\* C12 amended: with the reset flag set the reset has been attempted before
\* the Decision reads; if createLevelDB and resetCache both succeeded the
\* Decision read an empty cache, otherwise it read the cache as it was.
C12_ResetAttemptedBeforeReads ==
  /\ ~RESET_CACHE => resetOutcome = "skipped"
  /\ (RESET_CACHE /\ decisionDone) =>
       /\ resetOutcome # "skipped"
       /\ resetOutcome = "cleared" => (cache = EmptyCache /\ needsMongoDB)
       /\ resetOutcome # "cleared" => cache = cache0

\* C12 witness: a cache that was sufficient is cleared and then read.
C12_Witness ==
  /\ RESET_CACHE
  /\ decisionDone
  /\ resetOutcome = "cleared"
  /\ cache0.agg = "truthy"
  /\ needsMongoDB

\* C13 as stated: at most one transport-level connection test and at most
\* one database connect call in a run.
C13_Original ==
  /\ tcpTests <= 1
  /\ mongooseConnects <= 1

\* C13 amended: the probe and connectToDatabase each run at most once and
\* mongoose.connect at most once; each of the two opens one transport-level
\* test, so two are opened exactly on the path DATABASE_REQUIRED with a
\* reachable endpoint.
C13_EachCheckOnce ==
  /\ connectCalls <= 1
  /\ mongooseConnects <= connectCalls
  /\ tcpTests <= (IF socketOpen THEN 1 ELSE 0) + connectCalls
  /\ tcpTests = 2 => (decisionDone /\ needsMongoDB /\ mongodbAccessible)

\* C13 witness: probe and connectToDatabase both tested the endpoint.
C13_Witness ==
  /\ tcpTests = 2
  /\ mongooseConnects = 1
  /\ connectCalls = 1

\* C14 as stated: without a connection URI the orchestrator never
\* terminates the process, whatever the cache holds (the exits left are a
\* failed cache initialization and a failed application bootstrap).
C14_Original ==
  (MONGO_URI = "unset" /\ pc = "Exited") => (initFailed \/ appBootstraps = 1)

\* C14 amended: without a connection URI no connection is attempted and the
\* probe reports false; the run goes on cache-only when the Decision is
\* CACHE_SUFFICIENT and exits with status 1 when it is DATABASE_REQUIRED.
C14_NoUriIsCacheOnly ==
  MONGO_URI = "unset" =>
    /\ tcpTests = 0
    /\ connectCalls = 0
    /\ ~mongodbAccessible
    /\ (decisionDone /\ ~needsMongoDB /\ pc # "Gate") => HandedOverOrAbout
    /\ (decisionDone /\ needsMongoDB /\ pc # "Gate")
         => (pc = "Exited" /\ exitCode = 1)
    /\ pc = "Exited" =>
         (initFailed \/ (decisionDone /\ needsMongoDB) \/ appBootstraps = 1)

\* C14 witness: running cache-only without a URI.
C14_Witness ==
  /\ MONGO_URI = "unset"
  /\ pc = "Running"
  /\ ~needsMongoDB

\* ------------------------------------------- claims about connectToDatabase
\* connectToDatabase has returned to its caller.
ConnectReturned == pc = "ConnReturn"
\* A step of connectToDatabase other than the close of a previous
\* connection failed: URI lookup, TCP test, connect call, state verification.
ConnectStepFailed ==
  \/ MONGO_URI # "valid"
  \/ mongooseConnects = 0
  \/ connectReturnedState # 1

\* C15 as stated: connectToDatabase returns a boolean and every failure,
\* that of closing a previous connection included, yields false.
C15_Original ==
  ConnectReturned =>
    /\ connResult \in {"true", "false"}
    /\ (ConnectStepFailed \/ closeOutcome = "failed") => connResult = "false"

\* C15 amended: connectToDatabase never raises and returns a boolean; a
\* failure of the URI lookup, the TCP test, the connect call or the state
\* verification yields false, while a failing close of a previous connection
\* is logged and does not decide the result.
C15_NeverRaises ==
  /\ connResult # "raised"
  /\ ConnectReturned =>
       /\ connResult \in {"true", "false"}
       /\ ConnectStepFailed => connResult = "false"

\* C15 witness: the close of the previous connection failed, the connect
\* succeeded, and true was returned.
C15_Witness ==
  /\ ConnectReturned
  /\ closeOutcome = "failed"
  /\ connResult = "true"

\* C16: connectToDatabase returns true only if the connection reported
\* readyState 1 after the connect call returned; a connect call that returns
\* with any other state gives false.
C16_TrueOnlyIfConnected ==
  /\ connResult = "true" => (connectReturnedState = 1 /\ readyState = 1)
  /\ connectReturnedState \in {0, 2, 3} => connResult = "false"

\* C16 witness: the connect call returned with the connection still
\* connecting, and false was returned.
C16_Witness ==
  /\ ConnectReturned
  /\ connectReturnedState = 2
  /\ connResult = "false"

\* C17 as stated: the connect call is never issued while a previous
\* connection is still open.
C17_Original ==
  mongooseConnects > 0 => stateAtConnect = 0

\* C17 amended: before the connect call a close of any pre-existing
\* connection has been attempted; the connect call is issued with the
\* previous connection still open only when that close failed.
C17_CloseAttemptedFirst ==
  mongooseConnects > 0 =>
    /\ stateAtConnect # 0 => closeOutcome = "failed"
    /\ closeOutcome \in {"none", "closed"} => stateAtConnect = 0

\* C17 witness: a previous connection was closed, then the connect issued.
C17_Witness ==
  /\ mongooseConnects = 1
  /\ closeOutcome = "closed"
  /\ stateAtConnect = 0

\* ------------------------------------------------- claims about shutdown
\* The handler of delivery h has ended the process.
HandlerExited(h) == handlers[h].at = "exited"

\* C18: when the process ends with status 0 in response to SIGINT or SIGTERM,
\* the handler that ended it has attempted a close of the connection unless
\* the connection was disconnected, and a close of the cache store; a failed
\* close of the connection is followed by the close attempt on the store.
C18_BothClosesAttempted ==
  /\ (pc = "Exited" /\ exitCode = 0) => \E h \in HandlerIds : HandlerExited(h)
  /\ \A h \in HandlerIds :
       /\ HandlerExited(h) =>
            /\ exitCode = 0
            /\ handlers[h].store \in {"closed", "failed"}
            /\ handlers[h].db \in {"skipped", "closed", "failed"}
            /\ handlers[h].db = "skipped" => readyState = 0
            /\ cacheCloseCalls >= 1
            /\ handlers[h].db # "skipped" => dbCloseCalls >= 1
       /\ (handlers[h].db = "failed" /\ handlers[h].at # "awaitDb")
            => handlers[h].store # "none"

\* C18 witness: a handler ended the process after its close of the
\* connection failed and its close of the store was attempted.
C18_Witness ==
  \E h \in HandlerIds :
    /\ HandlerExited(h)
    /\ exitCode = 0
    /\ handlers[h].db = "failed"
    /\ handlers[h].store = "closed"

\* C19: over the process lifetime at most one close is issued on the cache
\* store at shutdown, for every interleaving of signal deliveries.
C19_StoreClosedAtMostOnce == storeCloses <= 1

\* ------------------------------------- claims about failures in the Decision
\* The Decision went on to look up the site record: the handle was obtained
\* and the aggregated key did not give a truthy value.
SiteLookupPerformed ==
  /\ ~handleThrew
  /\ ~(cache.agg = "truthy" /\ siteContentKey \notin failedKeys)
\* The lookup of the site record was performed and failed.
SiteLookupFailed == SiteLookupPerformed /\ siteKey \in failedKeys

\* C20: when obtaining the cache handle throws or the lookup of the site
\* record fails, checkCacheForRequiredData still returns to the orchestrator
\* and its result is DATABASE_REQUIRED, never CACHE_SUFFICIENT.
C20_FailureRequiresDatabase ==
  /\ (decisionDone /\ (handleThrew \/ SiteLookupFailed)) => needsMongoDB
  /\ (handleThrew \/ failedKeys # {}) => (decisionDone /\ pc = "Gate")

\* C20 witness: the site record and its pages are all cached, the lookup of
\* the site record failed, and the Decision is DATABASE_REQUIRED.
C20_Witness ==
  /\ decisionDone
  /\ SiteLookupFailed
  /\ cache.agg = "absent"
  /\ cache.site.kind = "array"
  /\ \A p \in ListedPages : PageHasData(p)
  /\ needsMongoDB

\* ------------------------------------------- claims about the sequencing
\* The probe has opened its socket and its promise is not settled yet.
ProbeOutstanding == socketOpen /\ promiseValue = "pending"

\* C21: the steps of bootstrapFn are sequenced: the probe starts only after
\* the cache initialization has completed, the Decision starts only after the
\* probe has resolved, the connect is issued only after the Decision has
\* returned, and the probe is outstanding only while bootstrapFn awaits it.
C21_StepsSequenced ==
  /\ (socketOpen \/ probeDone) =>
       /\ levelDB = "open"
       /\ ~initFailed
       /\ pc \notin {"Start", "Reset", "Init"}
  /\ (pc = "Decide" \/ decisionDone) => (probeDone /\ ~ProbeOutstanding)
  /\ (connectCalls > 0 \/ mongooseConnects > 0) =>
       (decisionDone /\ pc \notin {"Decide", "Gate"})
  /\ ProbeOutstanding => pc = "ProbeWait"

\* C21 witness: the connect call is being issued after a probe that opened a
\* socket and resolved, and after the Decision returned.
C21_Witness ==
  /\ pc = "ConnOpen"
  /\ tcpTests = 2
  /\ firstEvent = "connect"
  /\ decisionDone
  /\ needsMongoDB

\* ------------------------------------------------ claims about termination
\* The run is in a terminal state: the application was handed over and is
\* running, or the process was ended.
Terminal == pc \in {"Running", "Exited"}

C23_TrueIffConnectFirst ==
  /\ probeDone => (mongodbAccessible <=> firstEvent = "connect")
  /\ promiseValue = "true" <=> firstEvent = "connect"
  /\ promiseValue = "false" <=> firstEvent \in {"timeout", "error"}

\* C23 witness: connect fired first, an error or timeout fired later, and
\* the probe's result is true.
C23_Witness ==
  /\ probeDone
  /\ firstEvent = "connect"
  /\ evCount >= 2
  /\ mongodbAccessible

\* ------------------------------------ claims about the pageOrder of the site
\* C24: with the aggregated key absent and the site record read, a site
\* record without pageOrder or with a pageOrder that is not a sequence gives
\* DATABASE_REQUIRED, and one whose pageOrder is the empty sequence gives
\* CACHE_SUFFICIENT.
C24_PageOrderShapeDecides ==
  (decisionDone /\ ~handleThrew /\ siteKey \notin failedKeys
     /\ cache.agg = "absent") =>
    /\ cache.site.kind \in {"nopageorder", "nonarray"} => needsMongoDB
    /\ (cache.site.kind = "array" /\ cache.site.pageOrder = <<>>)
         => ~needsMongoDB

\* C24 witness: the site record lists no page, no page is cached, and the
\* Decision is CACHE_SUFFICIENT.
C24_Witness ==
  /\ decisionDone
  /\ ~handleThrew
  /\ siteKey \notin failedKeys
  /\ cache.agg = "absent"
  /\ cache.site.kind = "array"
  /\ cache.site.pageOrder = <<>>
  /\ \A p \in PageIds : cache.pages[p] = "absent"
  /\ ~needsMongoDB

====
